---------------------------- MODULE Spec2Model ----------------------------
(***************************************************************************)
(* OptiPrice: the three option pricing engines (Black-Scholes, binomial    *)
(* tree, Monte Carlo) and the analyzer built on them.                      *)
(*                                                                         *)
(* Floating point is modelled as fixed point (Scale units per 1.0) with    *)
(* the IEEE special values nan, +inf and -inf kept as tags, so that the    *)
(* numpy operations that warn instead of raising (log of a negative,       *)
(* division by zero) are distinguished from the Python operations that     *)
(* raise (float / 0.0).  Zero is unsigned.                                 *)
(***************************************************************************)
EXTENDS Integers, Sequences, FiniteSets, TLC

\* Fixed-point resolution: 1.0 is Scale units.
Scale == 10 ^ 3
\* Largest finite magnitude (in units); anything larger is an infinity.
MaxFin == 10 ^ 8

Abs(x) == IF x < 0 THEN -x ELSE x
Sgn(x) == IF x < 0 THEN -1 ELSE IF x > 0 THEN 1 ELSE 0
Min2(a, b) == IF a < b THEN a ELSE b
Max2(a, b) == IF a > b THEN a ELSE b
\* F applied to the value of v (v is evaluated once)
With(v, F(_)) == F(v)

(***************************************************************************)
(* Unsigned fixed-point kernels, written so that no intermediate product   *)
(* leaves the 32-bit range.  A result above MaxFin stands for overflow.    *)
(***************************************************************************)
Over == MaxFin + 1

\* floor(a * b / Scale) for 0 <= a, b <= MaxFin
UMul(a, b) ==
    LET ah == a \div Scale
        al == a % Scale
    IN  IF ah > 0 /\ b > MaxFin \div ah THEN Over
        ELSE Min2(Over, ah * b + al * (b \div Scale) + (al * (b % Scale)) \div Scale)

RECURSIVE UDigits(_, _, _)
UDigits(r, b, n) ==
    IF n = 0 THEN 0
    ELSE LET x == r * 10
         IN  (x \div b) * (10 ^ (n - 1)) + UDigits(x % b, b, n - 1)

\* floor(a * Scale / b) for 0 <= a <= MaxFin, 0 < b <= MaxFin
UDiv(a, b) ==
    LET q == a \div b
    IN  IF q > MaxFin \div Scale THEN Over
        ELSE q * Scale + UDigits(a % b, b, 3)

RECURSIVE USqrtSearch(_, _, _)
USqrtSearch(x, lo, hi) ==
    IF hi - lo <= 1 THEN lo
    ELSE LET mid == (lo + hi) \div 2
             sq  == UMul(mid, mid)
             exact == ((mid % Scale) * (mid % Scale)) % Scale = 0
         IN  IF sq < x \/ (sq = x /\ exact) THEN USqrtSearch(x, mid, hi)
             ELSE USqrtSearch(x, lo, mid)

\* sqrt of a fixed-point value 0 <= x <= MaxFin
USqrt(x) == USqrtSearch(x, 0, 400000)

\* e^x for 0 <= x <= Scale / 2, by its Taylor series
UExpSmall(x) ==
    LET x2 == UMul(x, x)
        x3 == UMul(x2, x)
        x4 == UMul(x3, x)
        x5 == UMul(x4, x)
    IN  Scale + x + x2 \div 2 + x3 \div 6 + x4 \div 24 + x5 \div 120

USquare(h) == IF h > MaxFin THEN Over ELSE UMul(h, h)

RECURSIVE UExp(_)
\* e^x for x >= 0, by halving the argument and squaring
UExp(x) ==
    IF x > 12 * Scale THEN Over
    ELSE IF x <= Scale \div 2 THEN UExpSmall(x)
    ELSE USquare(UExp(x \div 2))

\* ln(m) for Scale <= m < 2 * Scale: 2 * atanh((m - 1) / (m + 1))
UAtanhSeries(y) ==
    LET y2 == UMul(y, y)
        y3 == UMul(y2, y)
        y5 == UMul(y3, y2)
    IN  2 * (y + y3 \div 3 + y5 \div 5)

ULnMantissa(m) == UAtanhSeries(UDiv(m - Scale, m + Scale))

RECURSIVE SLn(_)
\* ln(x) for a finite x > 0 (signed result)
SLn(x) ==
    IF x >= 2 * Scale THEN 693 + SLn(x \div 2)
    ELSE IF x < Scale THEN SLn(2 * x) - 693
    ELSE ULnMantissa(x)

\* the standard normal density at |x|: exp(-x^2 / 2) / sqrt(2 pi)
UPdfOver(e) == IF e > MaxFin THEN 0 ELSE UDiv(399, e)

UPdf(x) == UPdfOver(UExp(Min2(UMul(x, x) \div 2, 13 * Scale)))

\* the standard normal distribution function at x >= 0 (Abramowitz-Stegun 26.2.17)
UCdfPoly(t) ==
    LET t2 == UMul(t, t)
        t3 == UMul(t2, t)
        t4 == UMul(t3, t)
        t5 == UMul(t4, t)
    IN  (319 * t - 357 * t2 + 1781 * t3 - 1821 * t4 + 1330 * t5) \div Scale

UCdf(x) ==
    IF x > 12 * Scale THEN Scale
    ELSE Min2(Scale, Max2(Scale \div 2,
              Scale - UMul(UPdf(x), UCdfPoly(UDiv(Scale, Scale + UMul(232, x))))))

(***************************************************************************)
(* Floats: a finite fixed-point value or one of nan, +inf, -inf, with the  *)
(* IEEE rules numpy follows (no exception: a RuntimeWarning at most).      *)
(***************************************************************************)
Fin(v) == [t |-> "fin", v |-> v]
NaN == [t |-> "nan", v |-> 0]
PInf == [t |-> "inf", v |-> 1]
NInf == [t |-> "inf", v |-> -1]

IsNaN(a) == a.t = "nan"
IsFin(a) == a.t = "fin"
IsInf(a) == a.t = "inf"
\* the sign of a non-nan float
FlSgn(a) == Sgn(a.v)
\* a signed magnitude, overflowing to the infinity of its sign
Sat(sign, mag) ==
    IF mag > MaxFin THEN (IF sign < 0 THEN NInf ELSE PInf) ELSE Fin(sign * mag)

FlNeg(a) == IF IsNaN(a) THEN NaN ELSE [t |-> a.t, v |-> -a.v]

FlAdd(a, b) ==
    IF IsNaN(a) \/ IsNaN(b) THEN NaN
    ELSE IF IsInf(a) /\ IsInf(b) THEN (IF a.v = b.v THEN a ELSE NaN)
    ELSE IF IsInf(a) THEN a
    ELSE IF IsInf(b) THEN b
    ELSE Sat(Sgn(a.v + b.v), Abs(a.v + b.v))

FlSub(a, b) == FlAdd(a, FlNeg(b))

FlMul(a, b) ==
    IF IsNaN(a) \/ IsNaN(b) THEN NaN
    ELSE IF IsInf(a) \/ IsInf(b)
         THEN (IF FlSgn(a) * FlSgn(b) = 0 THEN NaN
               ELSE IF FlSgn(a) * FlSgn(b) < 0 THEN NInf ELSE PInf)
    ELSE Sat(Sgn(a.v) * Sgn(b.v), UMul(Abs(a.v), Abs(b.v)))

\* numpy's true division: x / 0 is an infinity or nan, never an exception
FlDiv(a, b) ==
    IF IsNaN(a) \/ IsNaN(b) THEN NaN
    ELSE IF IsInf(a) THEN (IF IsInf(b) THEN NaN
                           ELSE IF FlSgn(b) < 0 THEN FlNeg(a) ELSE a)
    ELSE IF IsInf(b) THEN Fin(0)
    ELSE IF b.v = 0 THEN (IF a.v = 0 THEN NaN
                          ELSE IF a.v < 0 THEN NInf ELSE PInf)
    ELSE Sat(Sgn(a.v) * Sgn(b.v), UDiv(Abs(a.v), Abs(b.v)))

\* np.log
FlLog(a) ==
    IF IsNaN(a) THEN NaN
    ELSE IF FlSgn(a) < 0 THEN NaN
    ELSE IF IsInf(a) THEN PInf
    ELSE IF a.v = 0 THEN NInf
    ELSE Fin(SLn(a.v))

\* np.sqrt
FlSqrt(a) ==
    IF IsNaN(a) THEN NaN
    ELSE IF FlSgn(a) < 0 THEN NaN
    ELSE IF IsInf(a) THEN PInf
    ELSE Fin(USqrt(a.v))

\* np.exp
FlExp(a) ==
    IF IsNaN(a) THEN NaN
    ELSE IF IsInf(a) THEN (IF a.v < 0 THEN Fin(0) ELSE PInf)
    ELSE IF a.v >= 0 THEN Sat(1, UExp(Min2(a.v, 13 * Scale)))
    ELSE With(UExp(Min2(-a.v, 13 * Scale)),
              LAMBDA e : IF e > MaxFin THEN Fin(0) ELSE Fin(UDiv(Scale, e)))

\* scipy.stats.norm.cdf
FlCdf(a) ==
    IF IsNaN(a) THEN NaN
    ELSE IF IsInf(a) THEN (IF a.v < 0 THEN Fin(0) ELSE Fin(Scale))
    ELSE IF a.v >= 0 THEN Fin(UCdf(a.v))
    ELSE Fin(Scale - UCdf(-a.v))

\* scipy.stats.norm.pdf
FlPdf(a) ==
    IF IsNaN(a) THEN NaN
    ELSE IF IsInf(a) THEN Fin(0)
    ELSE Fin(UPdf(Abs(a.v)))

\* comparisons: every comparison with nan is false
FlLt(a, b) ==
    /\ ~IsNaN(a) /\ ~IsNaN(b)
    /\ IF IsInf(a) THEN a.v < 0 /\ ~(IsInf(b) /\ b.v < 0)
       ELSE IF IsInf(b) THEN b.v > 0
       ELSE a.v < b.v
FlEq(a, b) == ~IsNaN(a) /\ ~IsNaN(b) /\ a = b
FlLe(a, b) == FlLt(a, b) \/ FlEq(a, b)
FlAbs(a) == IF IsNaN(a) THEN NaN ELSE [t |-> a.t, v |-> Abs(a.v)]
\* Python's max(x, y): y if y > x else x
PyMax(x, y) == IF FlLt(x, y) THEN y ELSE x
\* np.maximum(x, y): nan if either is nan
NpMaximum(x, y) == IF IsNaN(x) \/ IsNaN(y) THEN NaN ELSE IF FlLt(x, y) THEN y ELSE x

(***************************************************************************)
(* Outcomes of a call: a returned value or a raised exception, with the    *)
(* numeric routines the call entered, in order.                            *)
(***************************************************************************)
Ok(v) == [kind |-> "ok", val |-> v]
Raise(e) == [kind |-> "raise", exc |-> e]
Run(out, steps) == [out |-> out, steps |-> steps]
Raised(o) == o.kind = "raise"

Half == Fin(Scale \div 2)
Zero == Fin(0)
One == Fin(Scale)

\* str.lower() on the option kinds and exercise styles the callers pass
Lower(s) ==
    CASE s \in {"call", "CALL", "Call"} -> "call"
      [] s \in {"put", "PUT", "Put"} -> "put"
      [] s \in {"american", "AMERICAN"} -> "american"
      [] s \in {"european", "EUROPEAN"} -> "european"
      [] OTHER -> s

\* Python's float / float: ZeroDivisionError on a zero divisor
PyDivRaises(a, b) == IsFin(b) /\ b.v = 0

(***************************************************************************)
(* BlackScholesModel                                                       *)
(***************************************************************************)
BlackScholesModel(S, K, T, r, sigma, option_type) ==
    [S |-> S, K |-> K, T |-> T, r |-> r, sigma |-> sigma,
     option_type |-> Lower(option_type)]

\* _calculate_d1_d2: <<d1, d2>>; S / K is a Python division
calculate_d1_d2(m) ==
    With(FlMul(m.sigma, FlSqrt(m.T)), LAMBDA vol :
    With(FlDiv(FlAdd(FlLog(FlDiv(m.S, m.K)),
                     FlMul(FlAdd(m.r, FlMul(Half, FlMul(m.sigma, m.sigma))), m.T)),
               vol), LAMBDA d1 :
    <<d1, FlSub(d1, vol)>>))

\* K * exp(-r * T)
DiscountedStrike(m) == FlMul(m.K, FlExp(FlMul(FlNeg(m.r), m.T)))

\* price(): d1 and d2 are evaluated first, the option kind is looked at after
BS_price(m) ==
    IF PyDivRaises(m.S, m.K) THEN Run(Raise("ZeroDivisionError"), <<"d1d2">>)
    ELSE With(calculate_d1_d2(m), LAMBDA dd :
         IF m.option_type = "call"
         THEN Run(Ok(FlSub(FlMul(m.S, FlCdf(dd[1])),
                           FlMul(DiscountedStrike(m), FlCdf(dd[2])))),
                  <<"d1d2", "cdf">>)
         ELSE IF m.option_type = "put"
         THEN Run(Ok(FlSub(FlMul(DiscountedStrike(m), FlCdf(FlNeg(dd[2]))),
                           FlMul(m.S, FlCdf(FlNeg(dd[1]))))),
                  <<"d1d2", "cdf">>)
         ELSE Run(Raise("ValueError"), <<"d1d2">>))

\* vega(), per point of volatility
BS_vega(m) ==
    IF PyDivRaises(m.S, m.K) THEN Run(Raise("ZeroDivisionError"), <<"d1d2">>)
    ELSE With(calculate_d1_d2(m), LAMBDA dd :
         Run(Ok(FlDiv(FlMul(FlMul(m.S, FlPdf(dd[1])), FlSqrt(m.T)), Fin(100 * Scale))),
             <<"d1d2", "pdf">>))

\* delta: any kind but 'call' is treated as a put
BS_delta_value(m) ==
    With(calculate_d1_d2(m), LAMBDA dd :
    IF m.option_type = "call" THEN FlCdf(dd[1]) ELSE FlSub(FlCdf(dd[1]), One))

BS_gamma_value(m) ==
    With(calculate_d1_d2(m), LAMBDA dd :
    FlDiv(FlPdf(dd[1]), FlMul(FlMul(m.S, m.sigma), FlSqrt(m.T))))

\* theta, per day: any kind but 'call' is treated as a put
BS_theta_value(m) ==
    With(calculate_d1_d2(m), LAMBDA dd :
    With(FlDiv(FlMul(FlMul(FlNeg(m.S), FlPdf(dd[1])), m.sigma),
               FlMul(Fin(2 * Scale), FlSqrt(m.T))), LAMBDA decay :
    With(FlMul(m.r, DiscountedStrike(m)), LAMBDA carry :
    FlDiv(IF m.option_type = "call"
          THEN FlSub(decay, FlMul(carry, FlCdf(dd[2])))
          ELSE FlAdd(decay, FlMul(carry, FlCdf(FlNeg(dd[2])))),
          Fin(365 * Scale)))))

\* rho: any kind but 'call' is treated as a put
BS_rho_value(m) ==
    With(calculate_d1_d2(m), LAMBDA dd :
    With(FlMul(m.T, DiscountedStrike(m)), LAMBDA kt :
    IF m.option_type = "call"
    THEN FlDiv(FlMul(kt, FlCdf(dd[2])), Fin(100 * Scale))
    ELSE FlDiv(FlMul(FlNeg(kt), FlCdf(FlNeg(dd[2]))), Fin(100 * Scale))))

\* greeks(): the five Greeks; each one starts with S / K
BS_greeks(m) ==
    IF PyDivRaises(m.S, m.K) THEN Run(Raise("ZeroDivisionError"), <<"d1d2">>)
    ELSE Run(Ok([delta |-> BS_delta_value(m), gamma |-> BS_gamma_value(m),
                 vega |-> BS_vega(m).out.val, theta |-> BS_theta_value(m),
                 rho |-> BS_rho_value(m)]),
             <<"d1d2", "cdf", "pdf">>)

(***************************************************************************)
(* BinomialTreeModel                                                       *)
(***************************************************************************)
\* __init__: T / steps is a Python division; the rest is numpy
BinomialTreeModel(S, K, T, r, sigma, steps, option_type, exercise) ==
    IF steps = 0 THEN Raise("ZeroDivisionError")
    ELSE With(FlDiv(T, Fin(steps * Scale)), LAMBDA dt :
         With(FlExp(FlMul(sigma, FlSqrt(dt))), LAMBDA u :
         With(FlDiv(One, u), LAMBDA d :
         Ok([S |-> S, K |-> K, T |-> T, r |-> r, sigma |-> sigma, steps |-> steps,
             option_type |-> Lower(option_type), exercise |-> Lower(exercise),
             dt |-> dt, u |-> u, d |-> d,
             p |-> FlDiv(FlSub(FlExp(FlMul(r, dt)), d), FlSub(u, d)),
             discount |-> FlExp(FlMul(FlNeg(r), dt))]))))

RECURSIVE FlPow(_, _)
\* x ** n for an integer n >= 0
FlPow(x, n) == IF n = 0 THEN One ELSE FlMul(FlPow(x, n - 1), x)

\* _build_stock_tree: stock_tree[j, i], zero below the diagonal
build_stock_tree(m) ==
    [j \in 0..m.steps, i \in 0..m.steps |->
        IF j <= i THEN FlMul(FlMul(m.S, FlPow(m.u, i - j)), FlPow(m.d, j)) ELSE Zero]

\* _calculate_option_value, for a recognised option kind
calculate_option_value(m, stock_price) ==
    IF m.option_type = "call" THEN PyMax(Zero, FlSub(stock_price, m.K))
    ELSE PyMax(Zero, FlSub(m.K, stock_price))

KnownKind(option_type) == option_type \in {"call", "put"}

RECURSIVE OptionColumn(_, _, _)
\* column i of option_tree (rows 0..i), by backward induction from column steps
OptionColumn(m, stock_tree, i) ==
    IF i = m.steps
    THEN [j \in 0..i |-> calculate_option_value(m, stock_tree[j, i])]
    ELSE With(OptionColumn(m, stock_tree, i + 1), LAMBDA next :
         [j \in 0..i |->
            With(FlMul(m.discount, FlAdd(FlMul(m.p, next[j]),
                                         FlMul(FlSub(One, m.p), next[j + 1]))),
                 LAMBDA cont :
                 IF m.exercise = "american"
                 THEN PyMax(cont, calculate_option_value(m, stock_tree[j, i]))
                 ELSE cont)])

\* get_tree: option_tree[j, i] for j <= i <= steps, given the stock tree
OptionTree(m, stock_tree) ==
    [i \in 0..m.steps |-> OptionColumn(m, stock_tree, i)]

\* price: the terminal payoffs come after the stock tree, and raise on an
\* unrecognised option kind
BT_price(m) ==
    IF ~KnownKind(m.option_type) THEN Run(Raise("ValueError"), <<"stock_tree">>)
    ELSE Run(Ok(OptionColumn(m, build_stock_tree(m), 0)[0]),
             <<"stock_tree", "payoff", "induction">>)

\* delta: from the two nodes of column 1, after get_tree
BT_delta(m) ==
    IF ~KnownKind(m.option_type) THEN Run(Raise("ValueError"), <<"stock_tree">>)
    ELSE With(build_stock_tree(m), LAMBDA st :
         With(OptionColumn(m, st, 1), LAMBDA o1 :
         Run(Ok(FlDiv(FlSub(o1[0], o1[1]), FlSub(st[0, 1], st[1, 1]))),
             <<"stock_tree", "payoff", "induction">>)))

\* faulty variant: gamma answers 0 whatever the lattice
BT_gamma_AlwaysZero(m) == Run(Ok(Zero), <<"stock_tree", "payoff", "induction">>)

\* gamma: from the three nodes of column 2, after get_tree; a tree with
\* fewer than two steps has no column 2
BT_gamma(m) ==
    IF ~KnownKind(m.option_type) THEN Run(Raise("ValueError"), <<"stock_tree">>)
    ELSE IF m.steps < 2
    THEN Run(Raise("IndexError"), <<"stock_tree", "payoff", "induction">>)
    ELSE With(build_stock_tree(m), LAMBDA st :
         With(OptionColumn(m, st, 2), LAMBDA o2 :
         With(FlDiv(FlSub(o2[0], o2[1]), FlSub(st[0, 2], st[1, 2])), LAMBDA delta_up :
         With(FlDiv(FlSub(o2[1], o2[2]), FlSub(st[1, 2], st[2, 2])), LAMBDA delta_down :
         Run(Ok(FlDiv(FlSub(delta_up, delta_down),
                      FlDiv(FlSub(st[0, 2], st[2, 2]), Fin(2 * Scale)))),
             <<"stock_tree", "payoff", "induction">>)))))

(***************************************************************************)
(* numpy's process-wide random generator, as a small linear congruential   *)
(* generator: np.random.seed sets its state, every draw advances it.       *)
(***************************************************************************)
RngMod == 2 ^ 4
RngStates == 0..(RngMod - 1)
\* np.random.seed(seed)
RngSeed(seed) == seed % RngMod
RngNext(x) == (5 * x + 3) % RngMod
RECURSIVE RngAfter(_, _)
\* the generator's state after n draws
RngAfter(x, n) == IF n = 0 THEN x ELSE RngAfter(RngNext(x), n - 1)
\* the standard normal variate drawn in state x: one of -1.5, -0.5, 0.5, 1.5
StandardNormal(x) == Fin((2 * (x \div 4) - 3) * (Scale \div 2))

\* scipy.stats.norm.ppf for a probability in units of 1 / Scale
RECURSIVE PpfSearch(_, _, _)
PpfSearch(q, lo, hi) ==
    IF hi - lo <= 1 THEN hi
    ELSE LET mid == (lo + hi) \div 2
         IN  IF UCdf(mid) >= q THEN PpfSearch(q, lo, mid) ELSE PpfSearch(q, mid, hi)

FlPpf(a) ==
    IF IsNaN(a) \/ IsInf(a) THEN NaN
    ELSE IF a.v < 0 \/ a.v > Scale THEN NaN
    ELSE IF a.v = 0 THEN NInf
    ELSE IF a.v = Scale THEN PInf
    ELSE IF a.v >= Scale \div 2 THEN Fin(PpfSearch(a.v, -1, 5 * Scale))
    ELSE Fin(-PpfSearch(Scale - a.v, -1, 5 * Scale))

(***************************************************************************)
(* MonteCarloModel                                                         *)
(***************************************************************************)
NoSeed == -1

\* __init__: the fields of the new instance
MonteCarloModel(S, K, T, r, sigma, simulations, option_type, seed) ==
    [S |-> S, K |-> K, T |-> T, r |-> r, sigma |-> sigma, simulations |-> simulations,
     option_type |-> Lower(option_type), seed |-> seed]

\* __init__: the generator after construction (seeded only when a seed is given)
SeedOnInit(seed, rng) == IF seed # NoSeed THEN RngSeed(seed) ELSE rng

\* one step of a path: exp((r - sigma^2 / 2) dt + sigma sqrt(dt) z)
GbmGrowth(m, dt, z) ==
    FlExp(FlAdd(FlMul(FlSub(m.r, FlMul(Half, FlMul(m.sigma, m.sigma))), dt),
                FlMul(FlMul(m.sigma, FlSqrt(dt)), z)))

RECURSIVE PathAt(_, _, _, _, _)
\* paths[i, t]: step t draws simulations variates, the i-th of them for path i
PathAt(m, steps, rng, i, t) ==
    IF t = 0 THEN m.S
    ELSE FlMul(PathAt(m, steps, rng, i, t - 1),
               GbmGrowth(m, FlDiv(m.T, Fin(steps * Scale)),
                         StandardNormal(RngAfter(rng, (t - 1) * m.simulations + (i - 1)))))

\* _simulate_paths: the paths (one row per simulation) and the generator after
\* its simulations * steps draws; steps >= 1
simulate_paths(m, steps, rng) ==
    [paths |-> [i \in 1..m.simulations |-> [t \in 0..steps |-> PathAt(m, steps, rng, i, t)]],
     rng |-> RngAfter(rng, m.simulations * steps)]

\* payoffs of the final prices; any kind but 'call' is treated as a put
Payoffs(m, paths, steps) ==
    [i \in DOMAIN paths |->
        IF m.option_type = "call" THEN NpMaximum(FlSub(paths[i][steps], m.K), Zero)
        ELSE NpMaximum(FlSub(m.K, paths[i][steps]), Zero)]

RECURSIVE FlSum(_, _)
FlSum(xs, n) == IF n = 0 THEN Zero ELSE FlAdd(FlSum(xs, n - 1), xs[n])
\* np.mean of a non-empty vector
NpMean(xs, n) == FlDiv(FlSum(xs, n), Fin(n * Scale))
\* np.std of a non-empty vector (population standard deviation)
NpStd(xs, n) ==
    With(NpMean(xs, n), LAMBDA mu :
    FlSqrt(NpMean([i \in 1..n |-> FlMul(FlSub(xs[i], mu), FlSub(xs[i], mu))], n)))

\* price(steps): the outcome, the routines entered and the generator afterwards.
\* The paths are simulated before the option kind is looked at.
MC_price(m, steps, rng) ==
    With(simulate_paths(m, steps, rng), LAMBDA sim :
    IF ~KnownKind(m.option_type)
    THEN [out |-> Raise("ValueError"), steps |-> <<"draw", "paths">>, rng |-> sim.rng]
    ELSE [out |-> Ok(FlMul(FlExp(FlMul(FlNeg(m.r), m.T)),
                           NpMean(Payoffs(m, sim.paths, steps), m.simulations))),
          steps |-> <<"draw", "paths", "payoff", "mean">>,
          rng |-> sim.rng])

\* the discounted payoffs of the simulated paths
DiscountedPayoffs(m, paths, steps) ==
    With(Payoffs(m, paths, steps), LAMBDA pay :
    With(FlExp(FlMul(FlNeg(m.r), m.T)), LAMBDA df :
    [i \in DOMAIN pay |-> FlMul(df, pay[i])]))

\* the confidence report from price, std, std_error and z_score
ConfidenceReport(price, std, std_error, z_score) ==
    [price |-> price, std |-> std, std_error |-> std_error,
     lower_bound |-> FlSub(price, FlMul(z_score, std_error)),
     upper_bound |-> FlAdd(price, FlMul(z_score, std_error))]

\* price_with_confidence(steps, confidence)
MC_price_with_confidence(m, steps, confidence, rng) ==
    With(simulate_paths(m, steps, rng), LAMBDA sim :
    With(DiscountedPayoffs(m, sim.paths, steps), LAMBDA disc :
    With(NpStd(disc, m.simulations), LAMBDA std :
    [out |-> Ok(ConfidenceReport(NpMean(disc, m.simulations), std,
                                 FlDiv(std, FlSqrt(Fin(m.simulations * Scale))),
                                 FlPpf(FlDiv(FlAdd(One, confidence), Fin(2 * Scale))))),
     steps |-> <<"draw", "paths", "payoff", "mean">>,
     rng |-> sim.rng])))

(***************************************************************************)
(* The callers' inputs.  A contract is <<S, K, T, r, sigma>> in units.     *)
(***************************************************************************)
Contract(S, K, T, r, sigma) ==
    [S |-> Fin(S), K |-> Fin(K), T |-> Fin(T), r |-> Fin(r), sigma |-> Fin(sigma)]

\* S, K, T and sigma strictly positive
Positive(c) == c.S.v > 0 /\ c.K.v > 0 /\ c.T.v > 0 /\ c.sigma.v > 0

ValidContracts ==
    { Contract(100000, 100000, 1000, 50, 200),
      Contract(100000, 90000, 500, 50, 300),
      Contract(90000, 100000, 1000, -20, 200),
      Contract(100000, 100000, 1000, 500, 100) }

\* one non-positive field each
BadContracts ==
    { Contract(-100000, 100000, 1000, 50, 200),
      Contract(0, 100000, 1000, 50, 200),
      Contract(100000, 0, 1000, 50, 200),
      Contract(100000, -100000, 1000, 50, 200),
      Contract(100000, 100000, 0, 50, 200),
      Contract(100000, 100000, -1000, 50, 200),
      Contract(100000, 100000, 1000, 50, 0),
      Contract(100000, 100000, 1000, 50, -200) }

Contracts == ValidContracts \cup BadContracts
Kinds == {"call", "put", "Put", "straddle"}
Exercises == {"european", "american"}

\* the seed the API passes
ApiSeed == 42
\* lattice depths and path counts the model runs
MaxSteps == 2
MaxSims == 2
\* time steps per simulated path
PathSteps == 2

(***************************************************************************)
(* State.  Spec serves one request at a time: a request is taken when      *)
(* idle, runs, and its outcome stays in out until the caller takes it.     *)
(* SpecMC runs threads that share MonteCarloModel instances and numpy's    *)
(* generator.                                                              *)
(***************************************************************************)
VARIABLES
    pc,     \* "idle", the running handler's position, or "done"
    req,    \* the request being served
    loc,    \* the running handler's local variables
    out,    \* the outcome of the finished call
    steps,  \* the numeric routines the call entered, in order
    rng,    \* numpy's global generator
    inst,   \* the fields of each MonteCarloModel instance
    made,   \* the fields each instance was constructed with
    at,     \* each thread's position inside the method it runs
    frame,  \* each thread's local variables
    ret,    \* what each thread's last call returned
    first,  \* what the first price_with_confidence() on each instance returned
    calls   \* how many calls each thread has made

apivars == <<pc, req, loc, out, steps>>
mcvars == <<inst, made, at, frame, ret, first, calls>>
vars == <<pc, req, loc, out, steps, rng, inst, made, at, frame, ret, first, calls>>

NoReq == [op |-> "none"]
NoLoc == [none |-> TRUE]
NoOut == [kind |-> "none"]
NoInst == [none |-> TRUE]
NoRet == [op |-> "none"]

InstIds == {"A", "B"}
Threads == {"t1", "t2"}

ApiIdle ==
    /\ pc = "idle"
    /\ req = NoReq
    /\ loc = NoLoc
    /\ out = NoOut
    /\ steps = <<>>

\* no instance constructed, every thread outside any method
McIdle ==
    /\ inst = [i \in InstIds |-> NoInst]
    /\ made = [i \in InstIds |-> NoInst]
    /\ at = [t \in Threads |-> "idle"]
    /\ frame = [t \in Threads |-> NoLoc]
    /\ ret = [t \in Threads |-> NoRet]
    /\ first = [i \in InstIds |-> NoOut]
    /\ calls = [t \in Threads |-> 0]

Init ==
    /\ ApiIdle
    /\ McIdle
    /\ rng = 0

Finish(r) ==
    /\ pc' = "done"
    /\ out' = r.out
    /\ steps' = r.steps

\* price_black_scholes: BlackScholesModel(...).price()
PriceBlackScholes(c, kind) ==
    /\ pc = "idle"
    /\ req' = [op |-> "bs_price", c |-> c, option_type |-> kind]
    /\ \E r \in {BS_price(BlackScholesModel(c.S, c.K, c.T, c.r, c.sigma, kind))} :
          Finish(r)
    /\ UNCHANGED <<loc, rng>>
    /\ UNCHANGED mcvars

\* price_binomial_tree: BinomialTreeModel(...).price()
PriceBinomialTree(c, kind, n, exercise) ==
    /\ pc = "idle"
    /\ req' = [op |-> "bt_price", c |-> c, option_type |-> kind, steps |-> n,
               exercise |-> exercise]
    /\ \E m \in {BinomialTreeModel(c.S, c.K, c.T, c.r, c.sigma, n, kind, exercise)} :
          Finish(IF Raised(m) THEN Run(m, <<>>) ELSE BT_price(m.val))
    /\ UNCHANGED <<loc, rng>>
    /\ UNCHANGED mcvars

\* a caller builds BinomialTreeModel(...) and calls delta()
DeltaBinomialTree(c, kind, n, exercise) ==
    /\ pc = "idle"
    /\ req' = [op |-> "bt_delta", c |-> c, option_type |-> kind, steps |-> n,
               exercise |-> exercise]
    /\ \E m \in {BinomialTreeModel(c.S, c.K, c.T, c.r, c.sigma, n, kind, exercise)} :
          Finish(IF Raised(m) THEN Run(m, <<>>) ELSE BT_delta(m.val))
    /\ UNCHANGED <<loc, rng>>
    /\ UNCHANGED mcvars

\* a caller builds BinomialTreeModel(...) and calls gamma()
GammaBinomialTree(c, kind, n, exercise) ==
    /\ pc = "idle"
    /\ req' = [op |-> "bt_gamma", c |-> c, option_type |-> kind, steps |-> n,
               exercise |-> exercise]
    /\ \E m \in {BinomialTreeModel(c.S, c.K, c.T, c.r, c.sigma, n, kind, exercise)} :
          Finish(IF Raised(m) THEN Run(m, <<>>) ELSE BT_gamma(m.val))
    /\ UNCHANGED <<loc, rng>>
    /\ UNCHANGED mcvars

\* a caller builds MonteCarloModel(...) and calls price()
PriceMonteCarlo(c, kind, sims, seed) ==
    /\ pc = "idle"
    /\ req' = [op |-> "mc_price", c |-> c, option_type |-> kind, simulations |-> sims,
               seed |-> seed, rng |-> rng]
    /\ \E r \in {MC_price(MonteCarloModel(c.S, c.K, c.T, c.r, c.sigma, sims, kind, seed),
                          PathSteps, SeedOnInit(seed, rng))} :
          /\ Finish(r)
          /\ rng' = r.rng
    /\ UNCHANGED loc
    /\ UNCHANGED mcvars

(***************************************************************************)
(* OptionsAnalyzer.compare_models.  The source runs the lattice at 100     *)
(* steps and the simulation at 10,000 paths of 100 steps; the model runs   *)
(* them at CompareSteps, CompareSims and PathSteps.                        *)
(***************************************************************************)
CompareSteps == 2
CompareSims == 2
\* price_with_confidence's default confidence, 0.95
DefaultConfidence == 950

\* confidence levels callers pass: 0.95, 0.5, 1.0, 1.5 and -0.5
Confidences == {Fin(DefaultConfidence), Fin(500), Fin(1000), Fin(1500), Fin(-500)}

\* a caller builds MonteCarloModel(...) and calls price_with_confidence(confidence)
ConfidenceMonteCarlo(c, kind, sims, seed, confidence) ==
    /\ pc = "idle"
    /\ req' = [op |-> "mc_confidence", c |-> c, option_type |-> kind, simulations |-> sims,
               seed |-> seed, confidence |-> confidence, rng |-> rng]
    /\ \E r \in {MC_price_with_confidence(
                      MonteCarloModel(c.S, c.K, c.T, c.r, c.sigma, sims, kind, seed),
                      PathSteps, confidence, SeedOnInit(seed, rng))} :
          /\ Finish(r)
          /\ rng' = r.rng
    /\ UNCHANGED loc
    /\ UNCHANGED mcvars

\* faulty variant: the failure is swallowed and the results gathered so far returned
CompareFail_ReturnsPartial(results, exc) == Ok(results)

\* an engine call raised inside compare_models: nothing catches it, the
\* partial results are dropped with the frame
CompareFail(results, exc) == Raise(exc)

\* the first outcome that raised, if any
FirstRaise(runs) ==
    IF \E i \in 1..Len(runs) : Raised(runs[i].out)
    THEN runs[CHOOSE i \in 1..Len(runs) :
                 /\ Raised(runs[i].out)
                 /\ \A j \in 1..(i - 1) : ~Raised(runs[j].out)].out
    ELSE NoOut

RECURSIVE StepsUntilRaise(_, _)
\* the routines entered by the calls up to and including the first that raised
StepsUntilRaise(runs, i) ==
    IF i > Len(runs) THEN <<>>
    ELSE IF Raised(runs[i].out) THEN runs[i].steps
    ELSE runs[i].steps \o StepsUntilRaise(runs, i + 1)

CompareStart(c, kind) ==
    /\ pc = "idle"
    /\ pc' = "cmp_bs"
    /\ req' = [op |-> "compare", c |-> c, option_type |-> kind]
    /\ loc' = [results |-> <<>>]
    /\ UNCHANGED <<out, steps, rng>>
    /\ UNCHANGED mcvars

\* one stage of compare_models: the engine's calls in order, then either the
\* failure or the stage's entry added to results
CompareStage(runs, key, entry, nextpc) ==
    /\ steps' = steps \o StepsUntilRaise(runs, 1)
    /\ IF Raised(FirstRaise(runs))
       THEN /\ pc' = "done"
            /\ out' = CompareFail(loc.results, FirstRaise(runs).exc)
            /\ UNCHANGED loc
       ELSE /\ loc' = [results |-> loc.results @@ (key :> entry)]
            /\ IF nextpc = "done"
               THEN pc' = "done" /\ out' = Ok(loc'.results)
               ELSE pc' = nextpc /\ UNCHANGED out

CompareBlackScholes ==
    /\ pc = "cmp_bs"
    /\ \E m \in {BlackScholesModel(req.c.S, req.c.K, req.c.T, req.c.r, req.c.sigma,
                                    req.option_type)} :
       \E price \in {BS_price(m)}, greeks \in {BS_greeks(m)} :
          CompareStage(<<price, greeks>>, "black_scholes",
                       [price |-> price.out.val, greeks |-> greeks.out.val], "cmp_bt")
    /\ UNCHANGED <<req, rng>>
    /\ UNCHANGED mcvars

CompareBinomialTree ==
    /\ pc = "cmp_bt"
    /\ \E m \in {BinomialTreeModel(req.c.S, req.c.K, req.c.T, req.c.r, req.c.sigma,
                                    CompareSteps, req.option_type, "european")} :
          IF Raised(m)
          THEN CompareStage(<<Run(m, <<>>)>>, "binomial_tree", NoOut, "cmp_mc")
          ELSE \E price \in {BT_price(m.val)}, delta \in {BT_delta(m.val)},
                  gamma \in {BT_gamma(m.val)} :
                  CompareStage(<<price, delta, gamma>>, "binomial_tree",
                               [price |-> price.out.val, delta |-> delta.out.val,
                                gamma |-> gamma.out.val], "cmp_mc")
    /\ UNCHANGED <<req, rng>>
    /\ UNCHANGED mcvars

CompareMonteCarlo ==
    /\ pc = "cmp_mc"
    /\ \E r \in {MC_price_with_confidence(
                      MonteCarloModel(req.c.S, req.c.K, req.c.T, req.c.r, req.c.sigma,
                                      CompareSims, req.option_type, ApiSeed),
                      PathSteps, Fin(DefaultConfidence), SeedOnInit(ApiSeed, rng))} :
          /\ CompareStage(<<r>>, "monte_carlo",
                          [price |-> r.out.val.price,
                           confidence_interval |-> <<r.out.val.lower_bound,
                                                     r.out.val.upper_bound>>,
                           std_error |-> r.out.val.std_error], "done")
          /\ rng' = r.rng
    /\ UNCHANGED req
    /\ UNCHANGED mcvars

(***************************************************************************)
(* OptionsAnalyzer.sensitivity_analysis                                    *)
(***************************************************************************)
\* the number of points np.linspace is asked for
NumPoints == 50
\* the floor of the first time value, 0.01
TimeFloor == 10

\* faulty variant: an unrecognised name is swept as the spot price
param_map_DefaultsToSpot(parameter) ==
    CASE parameter = "spot" -> "S"
      [] parameter = "volatility" -> "sigma"
      [] parameter = "time" -> "T"
      [] parameter = "rate" -> "r"
      [] OTHER -> "S"

\* param_map.get: the contract field behind a parameter name, "" for none
param_map(parameter) ==
    CASE parameter = "spot" -> "S"
      [] parameter = "volatility" -> "sigma"
      [] parameter = "time" -> "T"
      [] parameter = "rate" -> "r"
      [] OTHER -> ""

\* np.linspace(start, stop, num) for finite endpoints and num >= 2: the last
\* point is stop itself
Linspace(start, stop, num) ==
    [i \in 1..num |->
        IF i = num THEN stop
        ELSE FlAdd(start, FlDiv(FlMul(Fin((i - 1) * Scale), FlSub(stop, start)),
                                Fin((num - 1) * Scale)))]

\* param_values: only the first endpoint of a time sweep is floored
ParamValues(base_value, parameter, variation_range) ==
    IF parameter = "time"
    THEN Linspace(PyMax(Fin(TimeFloor), FlMul(base_value, FlSub(One, variation_range))),
                  FlMul(base_value, FlAdd(One, variation_range)), NumPoints)
    ELSE Linspace(FlMul(base_value, FlSub(One, variation_range)),
                  FlMul(base_value, FlAdd(One, variation_range)), NumPoints)

\* model.price() for each value in turn (the loop ends at the first that raises)
SweepRuns(c, option_type, param_key, param_values) ==
    [i \in 1..Len(param_values) |->
        With([c EXCEPT ![param_key] = param_values[i]], LAMBDA params :
             BS_price(BlackScholesModel(params.S, params.K, params.T, params.r,
                                        params.sigma, option_type)))]

\* the report, or the first failure of the repricing loop
SweepReport(parameter, param_values, runs) ==
    Run(IF Raised(FirstRaise(runs)) THEN FirstRaise(runs)
        ELSE Ok([parameter |-> parameter, values |-> param_values,
                 prices |-> [i \in 1..Len(runs) |-> runs[i].out.val]]),
        <<"linspace">> \o StepsUntilRaise(runs, 1))

\* sensitivity_analysis(S, K, T, r, sigma, option_type, parameter, variation_range)
\* for K > 0
sensitivity_analysis(c, option_type, parameter, variation_range) ==
    IF param_map(parameter) = "" THEN Run(Raise("ValueError"), <<>>)
    ELSE With(ParamValues(c[param_map(parameter)], parameter, variation_range),
              LAMBDA param_values :
              SweepReport(parameter, param_values,
                          SweepRuns(c, option_type, param_map(parameter), param_values)))

\* what callers of sensitivity_analysis pass
SweepContracts ==
    { Contract(100000, 100000, 1000, 50, 200),
      Contract(100000, 110000, 5, 50, 200) }
Parameters == {"spot", "volatility", "time", "rate", "strike"}
VariationRanges == {Fin(200), Fin(500)}

\* analyze_sensitivity
SensitivityAnalysis(c, kind, parameter, variation_range) ==
    /\ pc = "idle"
    /\ req' = [op |-> "sensitivity", c |-> c, option_type |-> kind,
               parameter |-> parameter, variation_range |-> variation_range]
    /\ \E r \in {sensitivity_analysis(c, kind, parameter, variation_range)} :
          Finish(r)
    /\ UNCHANGED <<loc, rng>>
    /\ UNCHANGED mcvars

(***************************************************************************)
(* OptionsAnalyzer.calculate_implied_volatility: Newton-Raphson on sigma,  *)
(* one action per pass of the loop.                                        *)
(***************************************************************************)
\* Python's None
PyNone == [t |-> "None"]
\* sigma = 0.3
InitialGuess == 300
\* sigma = 0.01 when an update leaves sigma <= 0
SigmaFloor == 10
\* the largest max_iterations the callers pass
MaxIterations == 3

\* faulty variant: the last iterate is returned when the budget runs out
iv_not_converged_ReturnsSigma(sigma) == Ok(sigma)

\* the loop ran max_iterations times: return None
iv_not_converged(sigma) == Ok(PyNone)
\* vega == 0 at an iterate outside the tolerance: return None
iv_zero_vega(sigma) == Ok(PyNone)

\* the boundary adapter's response to the solver's outcome
implied_volatility_response(o) ==
    IF Raised(o) THEN [status |-> 400, error |-> o.exc]
    ELSE IF o.val = PyNone
    THEN [status |-> 400, error |-> "Implied volatility calculation did not converge"]
    ELSE [status |-> 200, impliedVolatility |-> o.val]

\* sigma + price_diff / vega, replaced by 0.01 when not positive
NewtonUpdate(sigma, price_diff, vega) ==
    With(FlAdd(sigma, FlDiv(price_diff, vega)), LAMBDA next :
         IF FlLe(next, Zero) THEN Fin(SigmaFloor) ELSE next)

ImpliedVolatilityStart(market_price, c, kind, max_iterations, tolerance) ==
    /\ pc = "idle"
    /\ pc' = "iv"
    /\ req' = [op |-> "implied_volatility", market_price |-> market_price, c |-> c,
               option_type |-> kind, max_iterations |-> max_iterations,
               tolerance |-> tolerance]
    /\ loc' = [sigma |-> Fin(InitialGuess), i |-> 0, priced |-> <<>>, why |-> "running"]
    /\ UNCHANGED <<out, steps, rng>>
    /\ UNCHANGED mcvars

\* the pass's verdict given price and vega (already scaled by 100)
ImpliedVolatilityPass(price, vega) ==
    \E price_diff \in {FlSub(req.market_price, price)} :
       /\ IF FlLt(FlAbs(price_diff), req.tolerance)
          THEN /\ pc' = "done"
               /\ out' = Ok(loc.sigma)
               /\ loc' = [loc EXCEPT !.priced = Append(@, price), !.why = "converged"]
          ELSE IF FlEq(vega, Zero)
          THEN /\ pc' = "done"
               /\ out' = iv_zero_vega(loc.sigma)
               /\ loc' = [loc EXCEPT !.priced = Append(@, price), !.why = "zero_vega"]
          ELSE /\ pc' = "iv"
               /\ loc' = [loc EXCEPT !.sigma = NewtonUpdate(loc.sigma, price_diff, vega),
                                     !.i = @ + 1,
                                     !.priced = Append(@, price)]
               /\ UNCHANGED out

\* one pass of the loop: price and vega at sigma, then return or update
ImpliedVolatilityIterate ==
    /\ pc = "iv"
    /\ loc.i < req.max_iterations
    /\ \E m \in {BlackScholesModel(req.c.S, req.c.K, req.c.T, req.c.r, loc.sigma,
                                    req.option_type)} :
       \E price \in {BS_price(m)}, vega \in {BS_vega(m)} :
          IF Raised(price.out)
          THEN /\ pc' = "done"
               /\ out' = price.out
               /\ steps' = steps \o price.steps
               /\ loc' = [loc EXCEPT !.why = "raised"]
          ELSE IF Raised(vega.out)
          THEN /\ pc' = "done"
               /\ out' = vega.out
               /\ steps' = steps \o price.steps \o vega.steps
               /\ loc' = [loc EXCEPT !.priced = Append(@, price.out.val), !.why = "raised"]
          ELSE /\ steps' = steps \o price.steps \o vega.steps
               /\ ImpliedVolatilityPass(price.out.val,
                                        FlMul(vega.out.val, Fin(100 * Scale)))
    /\ UNCHANGED <<req, rng>>
    /\ UNCHANGED mcvars

\* the loop is over
ImpliedVolatilityExhausted ==
    /\ pc = "iv"
    /\ loc.i >= req.max_iterations
    /\ pc' = "done"
    /\ out' = iv_not_converged(loc.sigma)
    /\ loc' = [loc EXCEPT !.why = "exhausted"]
    /\ UNCHANGED <<req, steps, rng>>
    /\ UNCHANGED mcvars

\* what callers of calculate_implied_volatility pass
IvContracts ==
    { Contract(100000, 100000, 1000, 50, 200),
      Contract(100000, 50000, 3, 50, 200),
      Contract(100000, 40000, 1000, 50, 200),
      Contract(100000, 0, 1000, 50, 200) }
IvKinds == {"call", "put", "straddle"}
MarketPrices == {Fin(10450), Fin(49000), Fin(500), Fin(20000000)}
Tolerances == {Fin(1), Fin(500)}

(***************************************************************************)
(* OptionsAnalyzer.payoff_diagram, called by analyze_payoff                *)
(***************************************************************************)
\* the number of spots analyze_payoff asks np.linspace for
PayoffPoints == 100

\* faulty variant: the premium is left out of the long profit
LongProfit_NoPremium(payoff, premium) == payoff

\* profit_loss = payoff - premium
LongProfit(payoff, premium) == [i \in DOMAIN payoff |-> FlSub(payoff[i], premium)]
\* payoff = -payoff
ShortPayoff(payoff) == [i \in DOMAIN payoff |-> FlNeg(payoff[i])]
\* profit_loss = -payoff + premium, on the payoff already negated
ShortProfit(payoff, premium) ==
    [i \in DOMAIN payoff |-> FlAdd(FlNeg(payoff[i]), premium)]

\* np.maximum(S_range - K, 0) for 'call', np.maximum(K - S_range, 0) otherwise
PayoffAtExpiry(S_range, K, option_type) ==
    [i \in DOMAIN S_range |->
        IF option_type = "call" THEN NpMaximum(FlSub(S_range[i], K), Zero)
        ELSE NpMaximum(FlSub(K, S_range[i]), Zero)]

\* payoff_diagram(S_range, K, premium, option_type, position)
payoff_diagram(S_range, K, premium, option_type, position) ==
    With(PayoffAtExpiry(S_range, K, option_type), LAMBDA payoff :
         IF position = "long"
         THEN Run(Ok([spot_prices |-> S_range, payoff |-> payoff,
                      profit_loss |-> LongProfit(payoff, premium)]), <<"payoff">>)
         ELSE Run(Ok([spot_prices |-> S_range, payoff |-> ShortPayoff(payoff),
                      profit_loss |-> ShortProfit(ShortPayoff(payoff), premium)]),
                  <<"payoff">>))

\* what callers of analyze_payoff pass
Strikes == {Fin(100000), Fin(90000)}
SpotRanges == {<<Fin(80000), Fin(120000)>>, <<Fin(50000), Fin(150000)>>}
Premiums == {Fin(5000), Fin(0)}
PayoffKinds == {"call", "put", "CALL", "Put", "straddle"}
Positions == {"long", "short"}

\* analyze_payoff
AnalyzePayoff(K, spots, premium, kind, position) ==
    /\ pc = "idle"
    /\ req' = [op |-> "payoff", K |-> K, spot_min |-> spots[1], spot_max |-> spots[2],
               premium |-> premium, option_type |-> kind, position |-> position]
    /\ \E r \in {payoff_diagram(Linspace(spots[1], spots[2], PayoffPoints), K, premium,
                                 kind, position)} :
          Finish(r)
    /\ UNCHANGED <<loc, rng>>
    /\ UNCHANGED mcvars

\* the caller takes the outcome
Return ==
    /\ pc = "done"
    /\ pc' = "idle"
    /\ req' = NoReq
    /\ loc' = NoLoc
    /\ out' = NoOut
    /\ steps' = <<>>
    /\ UNCHANGED rng
    /\ UNCHANGED mcvars

Next ==
    \/ \E c \in Contracts, k \in Kinds : PriceBlackScholes(c, k)
    \/ \E c \in Contracts, k \in Kinds, n \in 1..MaxSteps, e \in Exercises :
          PriceBinomialTree(c, k, n, e)
    \/ \E c \in Contracts, k \in Kinds, n \in 1..MaxSteps, e \in Exercises :
          DeltaBinomialTree(c, k, n, e)
    \/ \E c \in Contracts, k \in Kinds, n \in 1..MaxSteps, e \in Exercises :
          GammaBinomialTree(c, k, n, e)
    \/ \E c \in Contracts, k \in Kinds, n \in 1..MaxSims, sd \in {ApiSeed, NoSeed} :
          PriceMonteCarlo(c, k, n, sd)
    \/ \E c \in ValidContracts, k \in Kinds, n \in 1..MaxSims, sd \in {ApiSeed, NoSeed},
          cf \in Confidences : ConfidenceMonteCarlo(c, k, n, sd, cf)
    \/ \E c \in Contracts, k \in Kinds : CompareStart(c, k)
    \/ CompareBlackScholes
    \/ CompareBinomialTree
    \/ CompareMonteCarlo
    \/ \E c \in SweepContracts, k \in Kinds, p \in Parameters, v \in VariationRanges :
          SensitivityAnalysis(c, k, p, v)
    \/ \E mp \in MarketPrices, c \in IvContracts, k \in IvKinds, n \in 0..MaxIterations,
          tol \in Tolerances : ImpliedVolatilityStart(mp, c, k, n, tol)
    \/ ImpliedVolatilityIterate
    \/ ImpliedVolatilityExhausted
    \/ \E K \in Strikes, sp \in SpotRanges, pr \in Premiums, k \in PayoffKinds,
          ps \in Positions : AnalyzePayoff(K, sp, pr, k, ps)
    \/ Return

Spec == Init /\ [][Next]_vars

EnginePrice == req.op \in {"bs_price", "bt_price", "mc_price"}

(***************************************************************************)
(* Threads on shared MonteCarloModel instances.  A method that calls       *)
(* _simulate_paths or price() is cut at those calls and at its field       *)
(* assignments: the class takes no lock, so another thread can run between *)
(* any two of them.                                                        *)
(***************************************************************************)
\* delta() and vega(): the default bump, 0.01
Bump == 10
\* what threads construct instances from
McContracts == { Contract(100000, 100000, 1000, 50, 200) }
McKinds == {"call", "straddle"}
McSeeds == {ApiSeed}

\* calls a thread makes
MaxCalls == 2
\* paths asked of get_paths
NumPaths == 1

Constructed(i) == inst[i] # NoInst

\* thread t, outside any method, makes its next call
Enter(t) ==
    /\ at[t] = "idle"
    /\ calls[t] < MaxCalls
    /\ calls' = [calls EXCEPT ![t] = @ + 1]
Fields(m) == [S |-> m.S, sigma |-> m.sigma, simulations |-> m.simulations]

Returns(t, op, i, o) ==
    ret' = [ret EXCEPT ![t] = [op |-> op, inst |-> i, out |-> o]]

\* MonteCarloModel(...): stores the fields and, given a seed, reseeds the
\* process-wide generator
Construct(t, i, c, kind, sims, seed) ==
    /\ Enter(t)
    /\ ~Constructed(i)
    /\ inst' = [inst EXCEPT ![i] = MonteCarloModel(c.S, c.K, c.T, c.r, c.sigma,
                                                    sims, kind, seed)]
    /\ made' = [made EXCEPT ![i] = inst'[i]]
    /\ rng' = SeedOnInit(seed, rng)
    /\ Returns(t, "init", i, Ok(i))
    /\ UNCHANGED <<at, frame, first>>
    /\ UNCHANGED apivars

\* model.price_with_confidence()
PriceWithConfidence(t, i) ==
    /\ Enter(t)
    /\ Constructed(i)
    /\ \E r \in {MC_price_with_confidence(inst[i], PathSteps, Fin(DefaultConfidence),
                                          rng)} :
          /\ rng' = r.rng
          /\ Returns(t, "price_with_confidence", i, r.out)
          /\ first' = IF first[i] = NoOut THEN [first EXCEPT ![i] = r.out] ELSE first
    /\ UNCHANGED <<inst, made, at, frame>>
    /\ UNCHANGED apivars

\* model.price()
Price(t, i) ==
    /\ Enter(t)
    /\ Constructed(i)
    /\ \E r \in {MC_price(inst[i], PathSteps, rng)} :
          /\ rng' = r.rng
          /\ Returns(t, "price", i, r.out)
    /\ UNCHANGED <<inst, made, at, frame, first>>
    /\ UNCHANGED apivars

\* a caller reads model.S, model.sigma and model.simulations
ReadFields(t, i) ==
    /\ Enter(t)
    /\ Constructed(i)
    /\ Returns(t, "read", i, Ok(Fields(inst[i])))
    /\ UNCHANGED <<inst, made, at, frame, first, rng>>
    /\ UNCHANGED apivars

\* get_paths(num_paths): original_simulations = self.simulations;
\* self.simulations = num_paths
GetPathsBegin(t, i, num_paths) ==
    /\ Enter(t)
    /\ Constructed(i)
    /\ frame' = [frame EXCEPT ![t] = [inst |-> i, rng0 |-> rng,
                                      original_simulations |-> inst[i].simulations]]
    /\ inst' = [inst EXCEPT ![i].simulations = num_paths]
    /\ at' = [at EXCEPT ![t] = "paths_simulate"]
    /\ UNCHANGED <<made, ret, first, rng>>
    /\ UNCHANGED apivars

\* paths = self._simulate_paths(steps)
GetPathsSimulate(t) ==
    /\ at[t] = "paths_simulate"
    /\ UNCHANGED calls
    /\ \E sim \in {simulate_paths(inst[frame[t].inst], PathSteps, rng)} :
          /\ rng' = sim.rng
          /\ frame' = [frame EXCEPT ![t] = [paths |-> sim.paths] @@ @]
    /\ at' = [at EXCEPT ![t] = "paths_restore"]
    /\ UNCHANGED <<inst, made, ret, first>>
    /\ UNCHANGED apivars

\* self.simulations = original_simulations; return paths
GetPathsRestore(t) ==
    /\ at[t] = "paths_restore"
    /\ UNCHANGED calls
    /\ inst' = [inst EXCEPT ![frame[t].inst].simulations = frame[t].original_simulations]
    /\ Returns(t, "get_paths", frame[t].inst, Ok(frame[t].paths))
    /\ at' = [at EXCEPT ![t] = "idle"]
    /\ frame' = [frame EXCEPT ![t] = NoLoc]
    /\ UNCHANGED <<made, first, rng>>
    /\ UNCHANGED apivars

\* delta() bumps S, vega() bumps sigma
BumpedField(greek) == IF greek = "delta" THEN "S" ELSE "sigma"
\* self.S = original_S * (1 + bump); self.sigma = original_sigma + bump
Bumped(greek, original) ==
    IF greek = "delta" THEN FlMul(original, Fin(Scale + Bump))
    ELSE FlAdd(original, Fin(Bump))
\* delta = (price_bumped - price_original) / (original_S * bump);
\* vega = (price_bumped - price_original) / bump / 100
FiniteDifference(greek, price_original, price_bumped, original) ==
    IF greek = "delta"
    THEN FlDiv(FlSub(price_bumped, price_original), FlMul(original, Fin(Bump)))
    ELSE FlDiv(FlDiv(FlSub(price_bumped, price_original), Fin(Bump)), Fin(100 * Scale))

\* delta() / vega(): price_original = self.price(); `before' records the field
\* the method is about to bump as it stands when the method is entered
GreekBegin(t, i, greek) ==
    /\ Enter(t)
    /\ Constructed(i)
    /\ \E r \in {MC_price(inst[i], PathSteps, rng)} :
          /\ rng' = r.rng
          /\ IF Raised(r.out)
             THEN /\ Returns(t, greek, i, r.out)
                  /\ UNCHANGED <<at, frame>>
             ELSE /\ at' = [at EXCEPT ![t] = "bump"]
                  /\ frame' = [frame EXCEPT ![t] = [greek |-> greek, inst |-> i,
                                                    before |-> inst[i][BumpedField(greek)],
                                                    price_original |-> r.out.val]]
                  /\ UNCHANGED ret
    /\ UNCHANGED <<inst, made, first>>
    /\ UNCHANGED apivars

\* original = self.<field>; self.<field> = the bumped value
GreekBump(t) ==
    /\ at[t] = "bump"
    /\ UNCHANGED calls
    /\ \E f \in {BumpedField(frame[t].greek)}, i \in {frame[t].inst} :
          /\ frame' = [frame EXCEPT ![t] = [original |-> inst[i][f]] @@ @]
          /\ inst' = [inst EXCEPT ![i][f] = Bumped(frame[t].greek, inst[i][f])]
    /\ at' = [at EXCEPT ![t] = "reprice"]
    /\ UNCHANGED <<made, ret, first, rng>>
    /\ UNCHANGED apivars

\* price_bumped = self.price(); a failure leaves the method before the restore
GreekReprice(t) ==
    /\ at[t] = "reprice"
    /\ UNCHANGED calls
    /\ \E r \in {MC_price(inst[frame[t].inst], PathSteps, rng)} :
          /\ rng' = r.rng
          /\ IF Raised(r.out)
             THEN /\ Returns(t, frame[t].greek, frame[t].inst, r.out)
                  /\ at' = [at EXCEPT ![t] = "idle"]
                  /\ frame' = [frame EXCEPT ![t] = NoLoc]
             ELSE /\ at' = [at EXCEPT ![t] = "restore"]
                  /\ frame' = [frame EXCEPT ![t] = [price_bumped |-> r.out.val] @@ @]
                  /\ UNCHANGED ret
    /\ UNCHANGED <<inst, made, first>>
    /\ UNCHANGED apivars

\* self.<field> = original; return the finite difference
GreekRestore(t) ==
    /\ at[t] = "restore"
    /\ UNCHANGED calls
    /\ inst' = [inst EXCEPT ![frame[t].inst][BumpedField(frame[t].greek)] =
                                frame[t].original]
    /\ Returns(t, frame[t].greek, frame[t].inst,
               Ok(FiniteDifference(frame[t].greek, frame[t].price_original,
                                   frame[t].price_bumped, frame[t].original)))
    /\ at' = [at EXCEPT ![t] = "idle"]
    /\ frame' = [frame EXCEPT ![t] = NoLoc]
    /\ UNCHANGED <<made, first, rng>>
    /\ UNCHANGED apivars

McInit ==
    /\ ApiIdle
    /\ McIdle
    /\ rng = 0

McNext ==
    \/ \E t \in Threads, i \in InstIds, c \in McContracts, k \in McKinds, sd \in McSeeds :
          Construct(t, i, c, k, MaxSims, sd)
    \/ \E t \in Threads, i \in InstIds : PriceWithConfidence(t, i)
    \/ \E t \in Threads, i \in InstIds : Price(t, i)
    \/ \E t \in Threads, i \in InstIds : ReadFields(t, i)
    \/ \E t \in Threads, i \in InstIds : GetPathsBegin(t, i, NumPaths)
    \/ \E t \in Threads : GetPathsSimulate(t)
    \/ \E t \in Threads : GetPathsRestore(t)
    \/ \E t \in Threads, i \in InstIds, g \in {"delta", "vega"} : GreekBegin(t, i, g)
    \/ \E t \in Threads : GreekBump(t)
    \/ \E t \in Threads : GreekReprice(t)
    \/ \E t \in Threads : GreekRestore(t)

SpecMC == McInit /\ [][McNext]_vars

(***************************************************************************)
(* C1: an engine's price() on an option kind outside {call, put} fails     *)
(* with an invalid-parameter error before any numeric step of the call:    *)
(* no d1/d2 evaluation, no lattice, no path and no random draw precedes    *)
(* the failure.                                                            *)
(***************************************************************************)
C1_InvalidKindFailsBeforeNumerics ==
    (pc = "done" /\ EnginePrice /\ Positive(req.c)
       /\ ~KnownKind(Lower(req.option_type)))
    => /\ out = Raise("ValueError")
       /\ steps = <<>>
       /\ (req.op = "mc_price" => rng = SeedOnInit(req.seed, req.rng))

(***************************************************************************)
(* C2: a contract with S <= 0, K <= 0, T <= 0 or sigma <= 0 is rejected    *)
(* before any pricing computation: no constructor or pricing operation     *)
(* returns a value (nan and the infinities included) for it.               *)
(***************************************************************************)
C2_NonPositiveContractRejected ==
    (pc = "done" /\ EnginePrice /\ ~Positive(req.c))
    => /\ Raised(out)
       /\ steps = <<>>

(***************************************************************************)
(* C3: for a fixed seed, two MonteCarloModel instances constructed with    *)
(* identical parameters give identical price_with_confidence() outputs     *)
(* (price, std, std_error and both bounds), in every order in which the    *)
(* two are constructed and first queried, by one thread or by two.         *)
(***************************************************************************)
C3_SeededInstancesAgree ==
    \A a, b \in InstIds :
        (/\ Constructed(a) /\ Constructed(b)
         /\ made[a] = made[b] /\ made[a].seed # NoSeed
         /\ first[a] # NoOut /\ first[b] # NoOut)
        => first[a] = first[b]

(***************************************************************************)
(* C4: get_paths() alters no state that later pricing uses: when a thread  *)
(* running alone returns from get_paths() on a seeded instance, the        *)
(* simulations count is what it was before the call, and price() and       *)
(* price_with_confidence() give what they would have given had get_paths() *)
(* not been called.                                                        *)
(***************************************************************************)
SingleThreaded(t) == \A u \in Threads \ {t} : calls[u] = 0

C4_GetPathsLeavesPricingAlone ==
    [][\A t \in Threads :
          (GetPathsRestore(t) /\ SingleThreaded(t) /\ made[frame[t].inst].seed # NoSeed)
          => \E m \in {inst'[frame[t].inst]} :
                /\ m.simulations = frame[t].original_simulations
                /\ MC_price(m, PathSteps, rng').out
                      = MC_price(m, PathSteps, frame[t].rng0).out
                /\ MC_price_with_confidence(m, PathSteps, Fin(DefaultConfidence), rng').out
                      = MC_price_with_confidence(m, PathSteps, Fin(DefaultConfidence),
                                                 frame[t].rng0).out]_vars

(***************************************************************************)
(* C5: delta(), vega() and get_paths() are atomic to concurrent readers:   *)
(* whatever another thread is running, a thread that reads S, sigma and    *)
(* simulations of an instance sees the values it was constructed with.     *)
(***************************************************************************)
C5_NoReaderSeesBump ==
    \A t \in Threads :
        ret[t].op = "read" => ret[t].out = Ok(Fields(made[ret[t].inst]))

(***************************************************************************)
(* C7: sensitivity_analysis with a parameter name outside spot,            *)
(* volatility, time, rate fails with ValueError before any parameter value *)
(* is generated and before any Black-Scholes price is computed.            *)
(***************************************************************************)
C7_UnknownParameterFailsFirst ==
    (pc = "done" /\ req.op = "sensitivity"
       /\ req.parameter \notin {"spot", "volatility", "time", "rate"})
    => /\ out = Raise("ValueError")
       /\ steps = <<>>

\* a sweep of an unrecognised parameter has failed
C7_Witness ==
    /\ pc = "done" /\ req.op = "sensitivity" /\ req.parameter = "strike"
    /\ Raised(out)

(***************************************************************************)
(* C8: in a time sweep that returns, for every base T > 0 and every        *)
(* variation range, each of the generated time values is at least 0.01,    *)
(* and the values and the prices both have length 50.                      *)
(***************************************************************************)
C8_TimeSweepFloored ==
    (pc = "done" /\ req.op = "sensitivity" /\ req.parameter = "time"
       /\ req.c.T.v > 0 /\ ~Raised(out))
    => /\ Len(out.val.values) = NumPoints
       /\ Len(out.val.prices) = NumPoints
       /\ \A i \in 1..NumPoints : FlLe(Fin(TimeFloor), out.val.values[i])

(***************************************************************************)
(* C9: for a contract with positive S, K, T and a recognised option kind,  *)
(* calculate_implied_volatility makes at most max_iterations Black-Scholes *)
(* evaluations (one per pass, the pass counter never above                 *)
(* max_iterations), and when none of the prices it evaluated is within     *)
(* tolerance of the market price it returns None: it neither raises nor    *)
(* returns a volatility.                                                   *)
(***************************************************************************)
WithinTolerance(price) == FlLt(FlAbs(FlSub(req.market_price, price)), req.tolerance)

C9_BoundedAndSignalsNone ==
    (req.op = "implied_volatility" /\ Positive(req.c)
       /\ KnownKind(Lower(req.option_type)))
    => /\ loc.i <= req.max_iterations
       /\ Len(loc.priced) <= req.max_iterations
       /\ pc = "iv" => Len(loc.priced) = loc.i
       /\ pc = "done"
          => /\ ~Raised(out)
             /\ (\A j \in 1..Len(loc.priced) : ~WithinTolerance(loc.priced[j]))
                => out = Ok(PyNone)

\* the whole budget was spent without a price within tolerance
C9_Witness ==
    /\ pc = "done" /\ req.op = "implied_volatility"
    /\ Positive(req.c) /\ KnownKind(Lower(req.option_type))
    /\ req.max_iterations = MaxIterations
    /\ Len(loc.priced) = MaxIterations
    /\ \A j \in 1..Len(loc.priced) : ~WithinTolerance(loc.priced[j])
    /\ out = Ok(PyNone)

(***************************************************************************)
(* C10: when the search meets a vega of exactly zero at an iterate outside *)
(* the tolerance it stops in that pass, and what the caller and the        *)
(* boundary adapter receive differs from what they receive when the        *)
(* iteration budget runs out.                                              *)
(***************************************************************************)
C10_ZeroVegaDistinct ==
    (pc = "done" /\ req.op = "implied_volatility" /\ loc.why = "zero_vega")
    => /\ Len(loc.priced) = loc.i + 1
       /\ out # iv_not_converged(loc.sigma)
       /\ implied_volatility_response(out)
             # implied_volatility_response(iv_not_converged(loc.sigma))

(***************************************************************************)
(* C6: compare_models returns a report with all three sub-reports          *)
(* (black_scholes: price and five Greeks; binomial_tree: price, delta,     *)
(* gamma; monte_carlo: price, confidence interval, standard error) or      *)
(* fails as a whole: the caller never receives a report with only some of  *)
(* the sub-reports, and while the call runs it has received nothing.       *)
(***************************************************************************)
CompleteReport(r) ==
    /\ DOMAIN r = {"black_scholes", "binomial_tree", "monte_carlo"}
    /\ DOMAIN r.black_scholes = {"price", "greeks"}
    /\ DOMAIN r.black_scholes.greeks = {"delta", "gamma", "vega", "theta", "rho"}
    /\ DOMAIN r.binomial_tree = {"price", "delta", "gamma"}
    /\ DOMAIN r.monte_carlo = {"price", "confidence_interval", "std_error"}
    /\ Len(r.monte_carlo.confidence_interval) = 2

C6_CompareAllOrNothing ==
    req.op = "compare"
    => /\ pc # "done" => out = NoOut
       /\ pc = "done" => \/ Raised(out)
                         \/ out.kind = "ok" /\ CompleteReport(out.val)

\* a comparison failed as a whole, and another returned its full report
C6_Witness ==
    /\ pc = "done" /\ req.op = "compare"
    /\ Raised(out) /\ DOMAIN loc.results # {"black_scholes", "binomial_tree", "monte_carlo"}

(***************************************************************************)
(* C11: for every contract with positive S, K, T, sigma and every step     *)
(* count N >= 1, the lattice price of the American put is at least the     *)
(* lattice price of the European put with the same parameters.             *)
(***************************************************************************)
EuropeanTwin ==
    BinomialTreeModel(req.c.S, req.c.K, req.c.T, req.c.r, req.c.sigma, req.steps,
                      req.option_type, "european")

C11_AmericanPutAtLeastEuropean ==
    (pc = "done" /\ req.op = "bt_price" /\ Positive(req.c)
       /\ Lower(req.option_type) = "put" /\ Lower(req.exercise) = "american")
    => /\ ~Raised(out)
       /\ FlLe(BT_price(EuropeanTwin.val).out.val, out.val)

(***************************************************************************)
(* C12: on a lattice with fewer than 2 steps (and a recognised option      *)
(* kind) gamma() fails with an index-out-of-range error and returns no     *)
(* value, while delta() on a one-step lattice returns the difference       *)
(* quotient of the two depth-1 nodes.                                      *)
(***************************************************************************)
OneStepDelta(m) ==
    FlDiv(FlSub(calculate_option_value(m, build_stock_tree(m)[0, 1]),
                calculate_option_value(m, build_stock_tree(m)[1, 1])),
          FlSub(build_stock_tree(m)[0, 1], build_stock_tree(m)[1, 1]))

C12_ShallowGammaFails ==
    (pc = "done" /\ req.op \in {"bt_delta", "bt_gamma"} /\ req.steps < 2
       /\ KnownKind(Lower(req.option_type)))
    => /\ req.op = "bt_gamma" => out = Raise("IndexError")
       /\ req.op = "bt_delta"
          => out = Ok(OneStepDelta(BinomialTreeModel(req.c.S, req.c.K, req.c.T, req.c.r,
                                                     req.c.sigma, req.steps,
                                                     req.option_type, "european").val))

\* gamma() was called on a one-step lattice of a valid contract
C12_Witness ==
    /\ pc = "done" /\ req.op = "bt_gamma" /\ req.steps = 1
    /\ Positive(req.c) /\ KnownKind(Lower(req.option_type))
    /\ Raised(out)

(***************************************************************************)
(* C13: every result of price_with_confidence() has                        *)
(* lower_bound <= price <= upper_bound, for every simulation count >= 1    *)
(* and every confidence level the caller passes.                           *)
(***************************************************************************)
C13_IntervalContainsPrice ==
    (pc = "done" /\ req.op = "mc_confidence" /\ Positive(req.c) /\ ~Raised(out))
    => /\ FlLe(out.val.lower_bound, out.val.price)
       /\ FlLe(out.val.price, out.val.upper_bound)

(***************************************************************************)
(* C14: for a long position payoff_diagram returns, at every spot s,       *)
(* payoff = max(s - K, 0) for a call and max(K - s, 0) for a put, and      *)
(* profit_loss = payoff - premium; a long call with strike 100 and premium *)
(* 5 has payoff 20 and profit 15 at spot 120, payoff 0 and profit -5 at    *)
(* spot 80; the three sequences are as long as the spot range.             *)
(***************************************************************************)
C14_LongPayoff ==
    (pc = "done" /\ req.op = "payoff" /\ req.position = "long"
       /\ req.option_type \in {"call", "put"})
    => /\ out.kind = "ok"
       /\ Len(out.val.spot_prices) = PayoffPoints
       /\ Len(out.val.payoff) = PayoffPoints
       /\ Len(out.val.profit_loss) = PayoffPoints
       /\ \A i \in 1..PayoffPoints :
             /\ out.val.payoff[i]
                   = Fin(IF req.option_type = "call"
                         THEN Max2(out.val.spot_prices[i].v - req.K.v, 0)
                         ELSE Max2(req.K.v - out.val.spot_prices[i].v, 0))
             /\ out.val.profit_loss[i] = Fin(out.val.payoff[i].v - req.premium.v)
       /\ (req.option_type = "call" /\ req.K = Fin(100000) /\ req.premium = Fin(5000))
          => \A i \in 1..PayoffPoints :
                /\ out.val.spot_prices[i] = Fin(120000)
                   => out.val.payoff[i] = Fin(20000) /\ out.val.profit_loss[i] = Fin(15000)
                /\ out.val.spot_prices[i] = Fin(80000)
                   => out.val.payoff[i] = Fin(0) /\ out.val.profit_loss[i] = Fin(-5000)

\* the long call with strike 100 and premium 5, over spots from 80 to 120
C14_Witness ==
    /\ pc = "done" /\ req.op = "payoff" /\ req.position = "long"
    /\ req.option_type = "call" /\ req.K = Fin(100000) /\ req.premium = Fin(5000)
    /\ out.val.spot_prices[1] = Fin(80000)
    /\ out.val.spot_prices[PayoffPoints] = Fin(120000)
    /\ out.val.profit_loss[PayoffPoints] = Fin(15000)

(***************************************************************************)
(* C15: the option kind is case-insensitive wherever it is accepted:       *)
(* 'CALL' or 'Call' gives the same result as 'call', and 'PUT' or 'Put'    *)
(* the same as 'put', in the engines and in payoff_diagram.                *)
(***************************************************************************)
C15_KindCaseInsensitive ==
    /\ (pc = "done" /\ req.op = "bs_price")
       => out = BS_price(BlackScholesModel(req.c.S, req.c.K, req.c.T, req.c.r,
                                           req.c.sigma, Lower(req.option_type))).out
    /\ (pc = "done" /\ req.op = "bt_price" /\ ~Raised(out))
       => out = BT_price(BinomialTreeModel(req.c.S, req.c.K, req.c.T, req.c.r,
                                           req.c.sigma, req.steps,
                                           Lower(req.option_type), req.exercise).val).out
    /\ (pc = "done" /\ req.op = "payoff")
       => out = payoff_diagram(Linspace(req.spot_min, req.spot_max, PayoffPoints),
                               req.K, req.premium, Lower(req.option_type),
                               req.position).out

(***************************************************************************)
(* C16: the value-returning operations other than price() also fail on an  *)
(* option kind outside {call, put}: price_with_confidence and              *)
(* payoff_diagram never return a result for an unrecognised kind.          *)
(***************************************************************************)
C16_UnknownKindFails ==
    (pc = "done" /\ req.op \in {"mc_confidence", "payoff"}
       /\ ~KnownKind(Lower(req.option_type)))
    => Raised(out)

(***************************************************************************)
(* C17: when delta() or vega() finishes, by returning a value or by        *)
(* failing part-way, the field it bumps (S or sigma) has the value it had  *)
(* when the method was entered; no step of either method writes K, T, r,   *)
(* option_type, seed or simulations.                                       *)
(***************************************************************************)
InGreek(t) == at[t] \in {"bump", "reprice", "restore"}

C17_GreeksRestoreFields ==
    [][\A t \in Threads :
          (InGreek(t) /\ at'[t] # at[t])
          => /\ \A f \in {"K", "T", "r", "option_type", "seed", "simulations"} :
                   inst'[frame[t].inst][f] = inst[frame[t].inst][f]
             /\ at'[t] = "idle"
                => inst'[frame[t].inst][BumpedField(frame[t].greek)] = frame[t].before]_vars

(***************************************************************************)
(* C18: in calculate_implied_volatility every volatility at which          *)
(* Black-Scholes is evaluated is strictly positive (the initial 0.3, or an *)
(* update floored at 0.01), and a returned volatility is strictly positive *)
(* and prices within tolerance of the market price.                        *)
(***************************************************************************)
StrictlyPositive(x) == FlLt(Zero, x)

C18_SigmaStaysPositive ==
    /\ (pc = "iv" /\ loc.i < req.max_iterations) => StrictlyPositive(loc.sigma)
    /\ (pc = "done" /\ req.op = "implied_volatility" /\ loc.why = "converged")
       => /\ StrictlyPositive(out.val)
          /\ WithinTolerance(BS_price(BlackScholesModel(req.c.S, req.c.K, req.c.T,
                                                          req.c.r, out.val,
                                                          req.option_type)).out.val)

(***************************************************************************)
(* C19: for every strike, premium, kind and spot, the short position's     *)
(* profit_loss is the exact negative of the long position's profit_loss    *)
(* (premium minus intrinsic value), and the short payoff is the negative   *)
(* of the long payoff.                                                     *)
(***************************************************************************)
LongTwin ==
    payoff_diagram(Linspace(req.spot_min, req.spot_max, PayoffPoints), req.K,
                   req.premium, req.option_type, "long").out.val

C19_ShortMirrorsLong ==
    (pc = "done" /\ req.op = "payoff" /\ req.position = "short")
    => \A i \in 1..PayoffPoints :
          /\ out.val.payoff[i] = FlNeg(LongTwin.payoff[i])
          /\ out.val.profit_loss[i] = FlNeg(LongTwin.profit_loss[i])

(***************************************************************************)
(* C20: for every valid contract (S, K, T, sigma > 0, any r) and every     *)
(* step count N >= 1 the risk-neutral probability p lies in [0, 1], every  *)
(* lattice node value produced by backward induction is non-negative, and  *)
(* under American exercise every node value is at least the intrinsic      *)
(* value at that node.                                                     *)
(***************************************************************************)
Lattice ==
    BinomialTreeModel(req.c.S, req.c.K, req.c.T, req.c.r, req.c.sigma, req.steps,
                      req.option_type, req.exercise).val

C20_ProbabilityInUnitInterval ==
    (pc = "done" /\ req.op = "bt_price" /\ Positive(req.c) /\ req.steps >= 1
       /\ KnownKind(Lower(req.option_type)))
    => /\ FlLe(Zero, Lattice.p) /\ FlLe(Lattice.p, One)
       /\ \A i \in 0..req.steps : \A j \in 0..i :
             /\ FlLe(Zero, OptionTree(Lattice, build_stock_tree(Lattice))[i][j])
             /\ Lower(req.exercise) = "american"
                => FlLe(calculate_option_value(Lattice, build_stock_tree(Lattice)[j, i]),
                        OptionTree(Lattice, build_stock_tree(Lattice))[i][j])

=============================================================================
